---- MODULE Spec2Model ----
(***************************************************************************)
(* Configuration-and-assembly core of wal-g (internal/configure.go) and    *)
(* the encryption cycle exercised by test/crypto_test.go.                  *)
(*                                                                         *)
(* Strings are sequences of one-character strings, so that parsing         *)
(* (strconv.ParseInt, strconv.ParseBool) is computed character by          *)
(* character.  The empty Go string "" is the empty sequence.               *)
(* 64-bit integers are three limbs <<h, m, l>> (24 + 24 + 16 bits, two's   *)
(* complement), so that int64 arithmetic keeps its real width.             *)
(***************************************************************************)
EXTENDS Integers, Sequences, FiniteSets, TLC

VARIABLES
    env,            \* the settings source: name -> [found, value]
    fs,             \* the local file system: existing paths, openable folders
    folderRes,      \* what ConfigureFolder last returned, and whom it called
    crypterRes,     \* what ConfigureCrypter last returned, and what it looked up
    DiskLimiter,    \* process-wide disk limiter (unset = unlimited)
    NetworkLimiter, \* process-wide network limiter
    limitersRes,    \* what ConfigureLimiters last returned
    uploaderRes,    \* what ConfigureUploader last returned
    cycle           \* the encryption cycle of TestEncryptionCycle

vars == <<env, fs, folderRes, crypterRes, DiskLimiter, NetworkLimiter,
          limitersRes, uploaderRes, cycle>>

-----------------------------------------------------------------------------
(* Bounds of the model *)

\* how many of the registry's adapters take part in resolution
NumAdapters == 3

\* longest plaintext written in the encryption cycle
MaxSecretLen == 3

-----------------------------------------------------------------------------
(* Strings *)

EmptyStr == <<>>

IsPrefixOf(p, s) == Len(p) <= Len(s) /\ SubSeq(s, 1, Len(p)) = p

TrimPrefix(s, p) == IF IsPrefixOf(p, s) THEN SubSeq(s, Len(p) + 1, Len(s)) ELSE s

-----------------------------------------------------------------------------
(* Settings source *)

Unset == [found |-> FALSE, value |-> EmptyStr]

SetTo(v) == [found |-> TRUE, value |-> v]

\* LookupValue(key) (value string, ok bool)
LookupValue(e, key) == [value |-> e[key].value, ok |-> e[key].found]

\* GetSettingValue(key) string: the value, or "" when the key is not found
GetSettingValue(e, key) ==
    LET r == LookupValue(e, key) IN IF r.ok THEN r.value ELSE EmptyStr

-----------------------------------------------------------------------------
(* Storage adapter registry *)

WaleFileHost ==
    <<"f", "i", "l", "e", ":", "/", "/", "l", "o", "c", "a", "l", "h", "o", "s", "t">>

AdapterPrefixNames ==
    <<"WALG_S3_PREFIX", "WALG_FILE_PREFIX", "WALG_GS_PREFIX",
      "WALG_AZ_PREFIX", "WALG_SWIFT_PREFIX", "WALE_S3_PREFIX">>

\* the file adapter is the one with a prefix preprocessor
StorageAdapters ==
    [i \in 1..NumAdapters |->
        [prefixName |-> AdapterPrefixNames[i], hasPreprocessor |-> (i = 2)]]

prefixPreprocessor(adapter, prefix) == TrimPrefix(prefix, WaleFileHost)

NoFolder == [adapter |-> 0, prefix |-> EmptyStr]

NoError == [kind |-> "nil", adapter |-> 0, list |-> <<>>]

\* adapter.loadSettings(): succeeds or fails as the collaborator decides
loadSettings(i, ok) ==
    IF ok THEN [settings |-> i, err |-> NoError]
    ELSE [settings |-> 0, err |-> [kind |-> "loadSettings", adapter |-> i, list |-> <<>>]]

\* adapter.configureFolder(prefix, settings)
configureFolder(i, prefix, settings, ok) ==
    IF ok THEN [folder |-> [adapter |-> i, prefix |-> prefix], err |-> NoError]
    ELSE [folder |-> NoFolder,
          err |-> [kind |-> "configureFolder", adapter |-> i, list |-> <<>>]]

NewUnconfiguredStorageError_Dropping(storagePrefixVariants) ==
    [kind |-> "UnconfiguredStorage", adapter |-> 0,
     list |-> IF storagePrefixVariants = <<>> THEN <<>> ELSE Tail(storagePrefixVariants)]

NewUnconfiguredStorageError(storagePrefixVariants) ==
    [kind |-> "UnconfiguredStorage", adapter |-> 0, list |-> storagePrefixVariants]

RECURSIVE ConfigureFolderLoop_Retrying(_, _, _, _, _, _)
ConfigureFolderLoop_Retrying(e, i, skippedPrefixes, calls, loadOk, buildOk) ==
    IF i > Len(StorageAdapters)
    THEN [folder |-> NoFolder, err |-> NewUnconfiguredStorageError(skippedPrefixes),
          calls |-> calls]
    ELSE
      LET adapter == StorageAdapters[i]
          raw     == GetSettingValue(e, adapter.prefixName)
      IN  IF raw = EmptyStr
          THEN ConfigureFolderLoop_Retrying(e, i + 1,
                   Append(skippedPrefixes, adapter.prefixName), calls, loadOk, buildOk)
          ELSE
            LET prefix == IF adapter.hasPreprocessor
                          THEN prefixPreprocessor(adapter, raw) ELSE raw
                ld     == loadSettings(i, loadOk[i])
                calls1 == Append(calls, [op |-> "loadSettings", adapter |-> i, ok |-> loadOk[i]])
            IN  IF ld.err # NoError
                THEN ConfigureFolderLoop_Retrying(e, i + 1, skippedPrefixes, calls1,
                                                  loadOk, buildOk)
                ELSE
                  LET cf == configureFolder(i, prefix, ld.settings, buildOk[i])
                      calls2 == Append(calls1,
                          [op |-> "configureFolder", adapter |-> i, ok |-> buildOk[i]])
                  IN  IF cf.err # NoError
                      THEN ConfigureFolderLoop_Retrying(e, i + 1, skippedPrefixes, calls2,
                                                        loadOk, buildOk)
                      ELSE [folder |-> cf.folder, err |-> cf.err, calls |-> calls2]

\* the loop of ConfigureFolder from adapter i on; calls logs the collaborators invoked
RECURSIVE ConfigureFolderLoop(_, _, _, _, _, _)
ConfigureFolderLoop(e, i, skippedPrefixes, calls, loadOk, buildOk) ==
    IF i > Len(StorageAdapters)
    THEN [folder |-> NoFolder, err |-> NewUnconfiguredStorageError(skippedPrefixes),
          calls |-> calls]
    ELSE
      LET adapter == StorageAdapters[i]
          raw     == GetSettingValue(e, adapter.prefixName)
      IN  IF raw = EmptyStr
          THEN ConfigureFolderLoop(e, i + 1,
                   Append(skippedPrefixes, adapter.prefixName), calls, loadOk, buildOk)
          ELSE
            LET prefix == IF adapter.hasPreprocessor
                          THEN prefixPreprocessor(adapter, raw) ELSE raw
                ld     == loadSettings(i, loadOk[i])
                calls1 == Append(calls, [op |-> "loadSettings", adapter |-> i, ok |-> loadOk[i]])
            IN  IF ld.err # NoError
                THEN [folder |-> NoFolder, err |-> ld.err, calls |-> calls1]
                ELSE
                  LET cf == configureFolder(i, prefix, ld.settings, buildOk[i])
                  IN  [folder |-> cf.folder, err |-> cf.err,
                       calls |-> Append(calls1,
                          [op |-> "configureFolder", adapter |-> i, ok |-> buildOk[i]])]

\* ConfigureFolder() (storage.Folder, error)
ConfigureFolder(e, loadOk, buildOk) ==
    ConfigureFolderLoop(e, 1, <<>>, <<>>, loadOk, buildOk)

-----------------------------------------------------------------------------
(* Crypter resolution *)

NilCrypter == [kind |-> "nil", key |-> EmptyStr, passphrase |-> EmptyStr]

\* the process ended in a fatal key-material error instead of returning
FatalCrypter == [kind |-> "fatal", key |-> EmptyStr, passphrase |-> EmptyStr]

\* openpgp.CrypterFromArmoredKey(armoredKey, passphrase)
CrypterFromArmoredKey(armoredKey, passphrase, ok) ==
    IF ok THEN [kind |-> "ArmoredKey", key |-> armoredKey, passphrase |-> passphrase]
    ELSE FatalCrypter

\* openpgp.CrypterFromArmoredKeyPath(armoredKeyPath, passphrase)
CrypterFromArmoredKeyPath(armoredKeyPath, passphrase, ok) ==
    IF ok THEN [kind |-> "ArmoredKeyPath", key |-> armoredKeyPath, passphrase |-> passphrase]
    ELSE FatalCrypter

\* openpgp.CrypterFromKeyRingID(keyRingID, passphrase)
CrypterFromKeyRingID(keyRingID, passphrase, ok) ==
    IF ok THEN [kind |-> "KeyRingID", key |-> keyRingID, passphrase |-> passphrase]
    ELSE FatalCrypter

crypterFromRing_Dropped(e, passphrase, lookups, ok) ==
    [crypter |-> NilCrypter, lookups |-> Append(lookups, "WALE_GPG_KEY_ID")]

\* configure.go 215-221: the key-ring id, read with GetSettingValue
crypterFromRing(e, passphrase, lookups, ok) ==
    LET keyRingID == GetSettingValue(e, "WALE_GPG_KEY_ID")
        lookups1  == Append(lookups, "WALE_GPG_KEY_ID")
    IN  IF keyRingID # EmptyStr
        THEN [crypter |-> CrypterFromKeyRingID(keyRingID, passphrase, ok),
              lookups |-> lookups1]
        ELSE [crypter |-> NilCrypter, lookups |-> lookups1]

\* configure.go 208-213: the armored key file path, read with LookupValue
crypterFromPath(e, passphrase, lookups, ok) ==
    LET r        == LookupValue(e, "WALG_PGP_KEY_PATH")
        lookups1 == Append(lookups, "WALG_PGP_KEY_PATH")
    IN  IF r.ok
        THEN [crypter |-> CrypterFromArmoredKeyPath(r.value, passphrase, ok),
              lookups |-> lookups1]
        ELSE crypterFromRing(e, passphrase, lookups1, ok)

crypterFromKey_PathFirst(e, passphrase, lookups, ok) ==
    LET p        == LookupValue(e, "WALG_PGP_KEY_PATH")
        r        == LookupValue(e, "WALG_PGP_KEY")
        lookups1 == Append(lookups, "WALG_PGP_KEY_PATH")
        lookups2 == Append(lookups1, "WALG_PGP_KEY")
    IN  IF p.ok
        THEN [crypter |-> CrypterFromArmoredKeyPath(p.value, passphrase, ok),
              lookups |-> lookups1]
        ELSE IF r.ok
        THEN [crypter |-> CrypterFromArmoredKey(r.value, passphrase, ok),
              lookups |-> lookups2]
        ELSE crypterFromRing(e, passphrase, lookups2, ok)

\* configure.go 201-206: the inline armored key, read with LookupValue
crypterFromKey(e, passphrase, lookups, ok) ==
    LET r        == LookupValue(e, "WALG_PGP_KEY")
        lookups1 == Append(lookups, "WALG_PGP_KEY")
    IN  IF r.ok
        THEN [crypter |-> CrypterFromArmoredKey(r.value, passphrase, ok),
              lookups |-> lookups1]
        ELSE crypterFromPath(e, passphrase, lookups1, ok)

ConfigureCrypter_Ungated(e, ok) ==
    crypterFromKey(e, LookupValue(e, "WALG_PGP_KEY_PASSPHRASE").value,
                   <<"WALG_PGP_KEY_PASSPHRASE">>, ok)

\* ConfigureCrypter() crypto.Crypter
ConfigureCrypter(e, ok) ==
    LET r == LookupValue(e, "WALG_PGP_KEY_PASSPHRASE")
    IN  IF ~r.ok
        THEN [crypter |-> NilCrypter, lookups |-> <<"WALG_PGP_KEY_PASSPHRASE">>]
        ELSE crypterFromKey(e, r.value, <<"WALG_PGP_KEY_PASSPHRASE">>, ok)

-----------------------------------------------------------------------------
(* 64-bit integers: <<h, m, l>> stands for h * 2^40 + m * 2^16 + l, taken    *)
(* as a two's-complement bit pattern                                        *)

LimbL == 2^16

LimbM == 2^24

LimbH == 2^24

I64Zero == <<0, 0, 0>>

\* the bit pattern of a natural number below 2^31
I64(n) == <<0, n \div LimbL, n % LimbL>>

\* addition modulo 2^64
I64Add(a, b) ==
    LET l == a[3] + b[3]
        m == a[2] + b[2] + (l \div LimbL)
        h == a[1] + b[1] + (m \div LimbM)
    IN  <<h % LimbH, m % LimbM, l % LimbL>>

\* two's-complement negation
I64Neg(a) ==
    I64Add(<<LimbH - 1 - a[1], LimbM - 1 - a[2], LimbL - 1 - a[3]>>, <<0, 0, 1>>)

I64IsNegative(a) == a[1] >= LimbH \div 2

I64SignedHigh(a) == IF I64IsNegative(a) THEN a[1] - LimbH ELSE a[1]

\* a <= b as signed 64-bit integers
I64Leq(a, b) ==
    \/ I64SignedHigh(a) < I64SignedHigh(b)
    \/ /\ I64SignedHigh(a) = I64SignedHigh(b)
       /\ \/ a[2] < b[2]
          \/ a[2] = b[2] /\ a[3] <= b[3]

DigitOf(c) ==
    CASE c = "0" -> 0 [] c = "1" -> 1 [] c = "2" -> 2 [] c = "3" -> 3 [] c = "4" -> 4
      [] c = "5" -> 5 [] c = "6" -> 6 [] c = "7" -> 7 [] c = "8" -> 8 [] c = "9" -> 9
      [] OTHER -> -1

\* strconv.ParseUint(s, 10, 64), digit by digit from position i with value n so far
RECURSIVE ParseUintFrom(_, _, _)
ParseUintFrom(s, i, n) ==
    IF i > Len(s) THEN [val |-> n, err |-> "nil"]
    ELSE IF DigitOf(s[i]) < 0 THEN [val |-> I64Zero, err |-> "ErrSyntax"]
    ELSE
      LET l == n[3] * 10 + DigitOf(s[i])
          m == n[2] * 10 + (l \div LimbL)
          h == n[1] * 10 + (m \div LimbM)
      IN  IF h >= LimbH
          THEN [val |-> <<LimbH - 1, LimbM - 1, LimbL - 1>>, err |-> "ErrRange"]
          ELSE ParseUintFrom(s, i + 1, <<h, m % LimbM, l % LimbL>>)

ParseUint(s) ==
    IF s = EmptyStr THEN [val |-> I64Zero, err |-> "ErrSyntax"]
    ELSE ParseUintFrom(s, 1, I64Zero)

\* strconv.ParseInt(s, 10, 64)
ParseInt(s) ==
    IF s = EmptyStr THEN [val |-> I64Zero, err |-> "ErrSyntax"]
    ELSE
      LET neg    == s[1] = "-"
          digits == IF s[1] = "+" \/ s[1] = "-" THEN Tail(s) ELSE s
          u      == ParseUint(digits)
          cutoff == <<LimbH \div 2, 0, 0>>
      IN  IF u.err = "ErrSyntax" THEN [val |-> I64Zero, err |-> "ErrSyntax"]
          ELSE IF ~neg /\ (u.err = "ErrRange" \/ u.val[1] >= LimbH \div 2)
               THEN [val |-> <<LimbH \div 2 - 1, LimbM - 1, LimbL - 1>>, err |-> "ErrRange"]
          ELSE IF neg /\ (u.err = "ErrRange" \/ (u.val[1] >= LimbH \div 2 /\ u.val # cutoff))
               THEN [val |-> cutoff, err |-> "ErrRange"]
          ELSE [val |-> IF neg THEN I64Neg(u.val) ELSE u.val, err |-> "nil"]

-----------------------------------------------------------------------------
(* Rate limiters *)

DatabasePageSize == 8192

\* DefaultDataBurstRateLimit = 8 * int64(DatabasePageSize)
DefaultDataBurstRateLimit == I64(8 * DatabasePageSize)

NoLimiter == [set |-> FALSE, limit |-> I64Zero, burst |-> I64Zero]

\* rate.NewLimiter(rate.Limit(r), b): limit holds the parsed integer r that
\* rate.Limit converts
NewLimiter(r, b) == [set |-> TRUE, limit |-> r, burst |-> b]

\* int(x) of an int64 x, on a build whose int is 64 bits wide: the same bits
GoInt(x) == x

\* one of the two blocks of ConfigureLimiters: the limiter to install, or the error
configureLimiter(e, name, old) ==
    LET limitStr == GetSettingValue(e, name)
        p        == ParseInt(limitStr)
    IN  IF limitStr = EmptyStr THEN [limiter |-> old, err |-> "nil", setting |-> ""]
        ELSE IF p.err # "nil" THEN [limiter |-> old, err |-> p.err, setting |-> name]
        ELSE [limiter |-> NewLimiter(p.val, GoInt(I64Add(p.val, DefaultDataBurstRateLimit))),
              err |-> "nil", setting |-> ""]

\* ConfigureLimiters() error
ConfigureLimiters(e, disk, net) ==
    LET d == configureLimiter(e, "WALG_DISK_RATE_LIMIT", disk)
        n == configureLimiter(e, "WALG_NETWORK_RATE_LIMIT", net)
    IN  IF d.err # "nil"
        THEN [disk |-> disk, net |-> net, err |-> d.err, setting |-> d.setting]
        ELSE [disk |-> d.limiter, net |-> n.limiter, err |-> n.err, setting |-> n.setting]

-----------------------------------------------------------------------------
(* Delta data folder, compressor and uploader *)

DefaultDataFolderPath == <<"/", "t", "m", "p">>

PgWal == <<"p", "g", "_", "w", "a", "l">>

PgXlog == <<"p", "g", "_", "x", "l", "o", "g">>

WalgData == <<"w", "a", "l", "g", "_", "d", "a", "t", "a">>

RECURSIVE TrimTrailingSlashes(_)
TrimTrailingSlashes(dir) ==
    IF Len(dir) > 1 /\ dir[Len(dir)] = "/"
    THEN TrimTrailingSlashes(SubSeq(dir, 1, Len(dir) - 1))
    ELSE dir

\* filepath.Join(dir, name) for a one-element name: an empty dir is ignored
\* and the result has a single separator between the two
Join(dir, name) ==
    LET d == TrimTrailingSlashes(dir)
    IN  IF d = EmptyStr THEN name
        ELSE IF d = <<"/">> THEN d \o name
        ELSE d \o <<"/">> \o name

\* os.Stat(path) succeeds
Stat(f, path) == path \in f.exists

\* getDataFolderPath() string
getDataFolderPath(e, f) ==
    LET r == LookupValue(e, "PGDATA")
        dataFolderPath ==
            IF ~r.ok THEN DefaultDataFolderPath
            ELSE IF Stat(f, Join(r.value, PgWal)) THEN Join(r.value, PgWal)
            ELSE IF Stat(f, Join(r.value, PgXlog)) THEN Join(r.value, PgXlog)
            ELSE DefaultDataFolderPath
    IN  Join(dataFolderPath, WalgData)

\* strconv.ParseBool(str)
ParseBool(str) ==
    IF str \in {<<"1">>, <<"t">>, <<"T">>, <<"T", "R", "U", "E">>, <<"t", "r", "u", "e">>, <<"T", "r", "u", "e">>}
    THEN [val |-> TRUE, err |-> "nil"]
    ELSE IF str \in {<<"0">>, <<"f">>, <<"F">>, <<"F", "A", "L", "S", "E">>, <<"f", "a", "l", "s", "e">>, <<"F", "a", "l", "s", "e">>}
    THEN [val |-> FALSE, err |-> "nil"]
    ELSE [val |-> FALSE, err |-> "ErrSyntax"]

NoDataFolder == [kind |-> "nil", path |-> EmptyStr]

\* what a failed NewDiskDataFolder may hand back beside its error: nothing usable
UnusableDataFolders == {NoDataFolder, [kind |-> "nilptr", path |-> EmptyStr]}

\* NewDiskDataFolder(folderPath): opens or creates the folder
NewDiskDataFolder(f, folderPath, failed) ==
    IF folderPath \in f.openable
    THEN [folder |-> [kind |-> "DiskDataFolder", path |-> folderPath], err |-> "nil"]
    ELSE [folder |-> failed, err |-> "NoSuchFile"]

configureWalDeltaUsage_Propagating(e, f, failed) ==
    LET r == LookupValue(e, "WALG_USE_WAL_DELTA")
        b == ParseBool(r.value)
    IN  IF r.ok /\ b.err # "nil"
        THEN [useWalDelta |-> FALSE, deltaDataFolder |-> NoDataFolder, err |-> b.err,
              warned |-> FALSE]
        ELSE IF ~(r.ok /\ b.val)
        THEN [useWalDelta |-> FALSE, deltaDataFolder |-> NoDataFolder, err |-> "nil",
              warned |-> FALSE]
        ELSE
          LET d == NewDiskDataFolder(f, getDataFolderPath(e, f), failed)
          IN  [useWalDelta |-> TRUE, deltaDataFolder |-> d.folder, err |-> d.err,
               warned |-> FALSE]

\* configureWalDeltaUsage() (useWalDelta bool, deltaDataFolder DataFolder, err error)
configureWalDeltaUsage(e, f, failed) ==
    LET r == LookupValue(e, "WALG_USE_WAL_DELTA")
        b == ParseBool(r.value)
    IN  IF r.ok /\ b.err # "nil"
        THEN [useWalDelta |-> FALSE, deltaDataFolder |-> NoDataFolder, err |-> b.err,
              warned |-> FALSE]
        ELSE IF ~(r.ok /\ b.val)
        THEN [useWalDelta |-> FALSE, deltaDataFolder |-> NoDataFolder, err |-> "nil",
              warned |-> FALSE]
        ELSE
          LET d == NewDiskDataFolder(f, getDataFolderPath(e, f), failed)
          IN  IF d.err # "nil"
              THEN [useWalDelta |-> FALSE, deltaDataFolder |-> d.folder, err |-> "nil",
                    warned |-> TRUE]
              ELSE [useWalDelta |-> TRUE, deltaDataFolder |-> d.folder, err |-> "nil",
                    warned |-> FALSE]

Lz4AlgorithmName == <<"l", "z", "4">>

\* compression.Compressors: the registered algorithm names
Compressors == {<<"l", "z", "4">>, <<"l", "z", "m", "a">>, <<"b", "r", "o", "t", "l", "i">>}

\* configureCompressor() (compression.Compressor, error)
configureCompressor(e) ==
    LET given == GetSettingValue(e, "WALG_COMPRESSION_METHOD")
        compressionMethod == IF given = EmptyStr THEN Lz4AlgorithmName ELSE given
    IN  IF compressionMethod \notin Compressors
        THEN [compressor |-> EmptyStr, err |-> "UnknownCompressionMethod"]
        ELSE [compressor |-> compressionMethod, err |-> "nil"]

NoUploader ==
    [set |-> FALSE, compressor |-> EmptyStr, folder |-> NoFolder,
     deltaDataFolder |-> NoDataFolder, useWalDelta |-> FALSE]

\* NewUploader(compressor, folder, deltaDataFolder, useWalDelta)
NewUploader(compressor, folder, deltaDataFolder, useWalDelta) ==
    [set |-> TRUE, compressor |-> compressor, folder |-> folder,
     deltaDataFolder |-> deltaDataFolder, useWalDelta |-> useWalDelta]

ConfigureUploader_FatalWarning(e, f, loadOk, buildOk, failed) ==
    LET fo == ConfigureFolder(e, loadOk, buildOk)
        co == configureCompressor(e)
        de == configureWalDeltaUsage(e, f, failed)
    IN  IF fo.err # NoError
        THEN [uploader |-> NoUploader, context |-> "failed to configure folder",
              cause |-> fo.err.kind, warned |-> FALSE]
        ELSE IF co.err # "nil"
        THEN [uploader |-> NoUploader, context |-> "failed to configure compression",
              cause |-> co.err, warned |-> FALSE]
        ELSE IF de.err # "nil" \/ de.warned
        THEN [uploader |-> NoUploader, context |-> "failed to configure WAL Delta usage",
              cause |-> IF de.warned THEN "NoSuchFile" ELSE de.err, warned |-> de.warned]
        ELSE [uploader |-> NewUploader(co.compressor, fo.folder, de.deltaDataFolder,
                                       de.useWalDelta),
              context |-> "", cause |-> "nil", warned |-> de.warned]

\* ConfigureUploader() (uploader *Uploader, err error)
ConfigureUploader(e, f, loadOk, buildOk, failed) ==
    LET fo == ConfigureFolder(e, loadOk, buildOk)
        co == configureCompressor(e)
        de == configureWalDeltaUsage(e, f, failed)
    IN  IF fo.err # NoError
        THEN [uploader |-> NoUploader, context |-> "failed to configure folder",
              cause |-> fo.err.kind, warned |-> FALSE]
        ELSE IF co.err # "nil"
        THEN [uploader |-> NoUploader, context |-> "failed to configure compression",
              cause |-> co.err, warned |-> FALSE]
        ELSE IF de.err # "nil"
        THEN [uploader |-> NoUploader, context |-> "failed to configure WAL Delta usage",
              cause |-> de.err, warned |-> FALSE]
        ELSE [uploader |-> NewUploader(co.compressor, fo.folder, de.deltaDataFolder,
                                       de.useWalDelta),
              context |-> "", cause |-> "nil", warned |-> de.warned]

-----------------------------------------------------------------------------
(* The settings and file systems the operations are run against *)

AdapterSettingNames == {StorageAdapters[i].prefixName : i \in 1..NumAdapters}

SettingNames ==
    AdapterSettingNames \cup
    {"WALG_DISK_RATE_LIMIT", "WALG_NETWORK_RATE_LIMIT", "WALG_COMPRESSION_METHOD",
     "WALG_USE_WAL_DELTA", "PGDATA", "WALG_PGP_KEY_PASSPHRASE", "WALG_PGP_KEY",
     "WALG_PGP_KEY_PATH", "WALE_GPG_KEY_ID"}

\* a setting is unset, set to the empty string, or set to one of vals
Choices(vals) == {Unset, SetTo(EmptyStr)} \cup {SetTo(v) : v \in vals}

PrefixChoicesOf(i) ==
    IF StorageAdapters[i].hasPreprocessor
    THEN Choices({<<"f", "i", "l", "e", ":", "/", "/", "l", "o", "c", "a", "l", "h", "o", "s", "t", "/", "w">>, <<"/", "w">>})
    ELSE Choices({<<"s", "3", ":", "/", "/", "b">>})

PrefixChoices == [i \in 1..NumAdapters |-> PrefixChoicesOf(i)]

RateStrings ==
    {<<>>,
     <<"0">>,
     <<"1">>,
     <<"+", "5">>,
     <<"-", "1">>,
     <<"-", "5">>,
     <<"6", "5", "5", "3", "6">>,
     <<"a", "b", "c">>,
     <<"1", "x">>,
     <<"-">>,
     <<"1", ".", "5">>,
     <<" ", "1">>,
     <<"9", "2", "2", "3", "3", "7", "2", "0", "3", "6", "8", "5", "4", "7", "7", "5", "8", "0", "7">>,
     <<"9", "2", "2", "3", "3", "7", "2", "0", "3", "6", "8", "5", "4", "7", "7", "5", "8", "0", "8">>,
     <<"9", "2", "2", "3", "3", "7", "2", "0", "3", "6", "8", "5", "4", "7", "1", "0", "2", "7", "2">>,
     <<"9", "2", "2", "3", "3", "7", "2", "0", "3", "6", "8", "5", "4", "7", "1", "0", "2", "7", "1">>,
     <<"-", "9", "2", "2", "3", "3", "7", "2", "0", "3", "6", "8", "5", "4", "7", "7", "5", "8", "0", "8">>,
     <<"-", "9", "2", "2", "3", "3", "7", "2", "0", "3", "6", "8", "5", "4", "7", "7", "5", "8", "0", "9">>,
     <<"1", "8", "4", "4", "6", "7", "4", "4", "0", "7", "3", "7", "0", "9", "5", "5", "1", "6", "1", "6">>,
     <<"9", "9", "9", "9", "9", "9", "9", "9", "9", "9", "9", "9", "9", "9", "9", "9", "9", "9", "9", "9">>}

RateChoices == {Unset} \cup {SetTo(v) : v \in RateStrings}

UseDeltaChoices == Choices({<<"t", "r", "u", "e">>, <<"1">>, <<"T">>, <<"f", "a", "l", "s", "e">>, <<"y", "e", "s">>})

CompressionChoices == Choices({<<"l", "z", "4">>, <<"b", "r", "o", "t", "l", "i">>, <<"z", "i", "p">>})

PgdataChoices == {Unset, SetTo(<<"/", "d">>), SetTo(<<"/", "d", "/">>)}

FileSystems ==
    {[exists |-> ex, openable |-> op] :
        ex \in SUBSET {<<"/", "d", "/", "p", "g", "_", "w", "a", "l">>, <<"/", "d", "/", "p", "g", "_", "x", "l", "o", "g">>},
        op \in {{}, {<<"/", "t", "m", "p", "/", "w", "a", "l", "g", "_", "d", "a", "t", "a">>}, {<<"/", "d", "/", "p", "g", "_", "w", "a", "l", "/", "w", "a", "l", "g", "_", "d", "a", "t", "a">>, <<"/", "d", "/", "p", "g", "_", "x", "l", "o", "g", "/", "w", "a", "l", "g", "_", "d", "a", "t", "a">>},
                {<<"/", "t", "m", "p", "/", "w", "a", "l", "g", "_", "d", "a", "t", "a">>, <<"/", "d", "/", "p", "g", "_", "w", "a", "l", "/", "w", "a", "l", "g", "_", "d", "a", "t", "a">>, <<"/", "d", "/", "p", "g", "_", "x", "l", "o", "g", "/", "w", "a", "l", "g", "_", "d", "a", "t", "a">>}}}

NoFileSystem == [exists |-> {}, openable |-> {}]

\* the settings source holding, for each name of given, its choice there
EnvOf(given) ==
    [k \in SettingNames |-> IF k \in DOMAIN given THEN given[k] ELSE Unset]

\* the activation settings, adapter i holding one of choices[i]
AdapterEnvs(choices) ==
    {[k \in AdapterSettingNames |->
        a[CHOOSE i \in 1..NumAdapters : StorageAdapters[i].prefixName = k]] :
     a \in {f \in [1..NumAdapters -> UNION {choices[i] : i \in 1..NumAdapters}] :
                \A i \in 1..NumAdapters : f[i] \in choices[i]}}

\* for uploader assembly each activation setting is unset or set to a prefix
SetOrUnset == [i \in 1..NumAdapters |-> {Unset, SetTo(<<"s", "3", ":", "/", "/", "b">>)}]

-----------------------------------------------------------------------------
(* State before any operation has run *)

NotCalledFolder == [called |-> FALSE, folder |-> NoFolder, err |-> NoError, calls |-> <<>>]

NotCalledCrypter == [called |-> FALSE, crypter |-> NilCrypter, lookups |-> <<>>]

NotCalledLimiters == [called |-> FALSE, err |-> "nil", setting |-> ""]

NotCalledUploader ==
    [called |-> FALSE, uploader |-> NoUploader, context |-> "", cause |-> "nil",
     warned |-> FALSE, loadOk |-> FALSE, buildOk |-> FALSE]

NoCycle ==
    [pc |-> "idle", PubKey |-> 0, SecretKey |-> 0, secret |-> <<>>, buf |-> <<>>,
     sinkOpen |-> FALSE, decrypted |-> <<>>, err |-> "nil"]

InitResults ==
    /\ folderRes = NotCalledFolder
    /\ crypterRes = NotCalledCrypter
    /\ DiskLimiter = NoLimiter
    /\ NetworkLimiter = NoLimiter
    /\ limitersRes = NotCalledLimiters
    /\ uploaderRes = NotCalledUploader
    /\ cycle = NoCycle

-----------------------------------------------------------------------------
(* Storage resolution *)

InitFolder ==
    /\ env \in {EnvOf(a) : a \in AdapterEnvs(PrefixChoices)}
    /\ fs = NoFileSystem
    /\ InitResults

CallConfigureFolder ==
    /\ \E loadOk, buildOk \in [1..NumAdapters -> BOOLEAN] :
          folderRes' = [called |-> TRUE] @@ ConfigureFolder(env, loadOk, buildOk)
    /\ UNCHANGED <<env, fs, crypterRes, DiskLimiter, NetworkLimiter, limitersRes,
                   uploaderRes, cycle>>

NextFolder == CallConfigureFolder

SpecFolder == InitFolder /\ [][NextFolder]_vars

-----------------------------------------------------------------------------
(* Crypter resolution *)

InitCrypter ==
    /\ \E p \in Choices({<<"p", "w">>}), k \in Choices({<<"K", "E", "Y">>}),
          kp \in Choices({<<"/", "k">>}), id \in Choices({<<"A", "B", "1", "2">>}) :
          env = EnvOf([x \in {"WALG_PGP_KEY_PASSPHRASE", "WALG_PGP_KEY",
                              "WALG_PGP_KEY_PATH", "WALE_GPG_KEY_ID"} |->
                         CASE x = "WALG_PGP_KEY_PASSPHRASE" -> p
                           [] x = "WALG_PGP_KEY" -> k
                           [] x = "WALG_PGP_KEY_PATH" -> kp
                           [] OTHER -> id])
    /\ fs = NoFileSystem
    /\ InitResults

CallConfigureCrypter ==
    /\ \E ok \in BOOLEAN :
          crypterRes' = [called |-> TRUE] @@ ConfigureCrypter(env, ok)
    /\ UNCHANGED <<env, fs, folderRes, DiskLimiter, NetworkLimiter, limitersRes,
                   uploaderRes, cycle>>

NextCrypter == CallConfigureCrypter

SpecCrypter == InitCrypter /\ [][NextCrypter]_vars

-----------------------------------------------------------------------------
(* Rate limiters *)

InitLimiters ==
    /\ \E d, n \in RateChoices :
          env = EnvOf([x \in {"WALG_DISK_RATE_LIMIT", "WALG_NETWORK_RATE_LIMIT"} |->
                         IF x = "WALG_DISK_RATE_LIMIT" THEN d ELSE n])
    /\ fs = NoFileSystem
    /\ InitResults

CallConfigureLimiters ==
    /\ LET r == ConfigureLimiters(env, DiskLimiter, NetworkLimiter)
       IN  /\ DiskLimiter' = r.disk
           /\ NetworkLimiter' = r.net
           /\ limitersRes' = [called |-> TRUE, err |-> r.err, setting |-> r.setting]
    /\ UNCHANGED <<env, fs, folderRes, crypterRes, uploaderRes, cycle>>

NextLimiters == CallConfigureLimiters

SpecLimiters == InitLimiters /\ [][NextLimiters]_vars

-----------------------------------------------------------------------------
(* Uploader assembly *)

InitUploader ==
    /\ \E a \in AdapterEnvs(SetOrUnset), c \in CompressionChoices,
          u \in UseDeltaChoices, pg \in PgdataChoices :
          env = EnvOf([x \in AdapterSettingNames \cup
                              {"WALG_COMPRESSION_METHOD", "WALG_USE_WAL_DELTA", "PGDATA"} |->
                         CASE x = "WALG_COMPRESSION_METHOD" -> c
                           [] x = "WALG_USE_WAL_DELTA" -> u
                           [] x = "PGDATA" -> pg
                           [] OTHER -> a[x]])
    /\ fs \in FileSystems
    /\ InitResults

CallConfigureUploader ==
    /\ \E loadOk, buildOk \in BOOLEAN, failed \in UnusableDataFolders :
          uploaderRes' =
              [called |-> TRUE, loadOk |-> loadOk, buildOk |-> buildOk] @@
              ConfigureUploader(env, fs, [i \in 1..NumAdapters |-> loadOk],
                                [i \in 1..NumAdapters |-> buildOk], failed)
    /\ UNCHANGED <<env, fs, folderRes, crypterRes, DiskLimiter, NetworkLimiter,
                   limitersRes, cycle>>

NextUploader == CallConfigureUploader

SpecUploader == InitUploader /\ [][NextUploader]_vars

-----------------------------------------------------------------------------
(* The encryption cycle of TestEncryptionCycle.  Ciphertext is a sequence   *)
(* of numbers: a header naming the recipient key, one number per encrypted  *)
(* byte, and a trailer carrying the integrity checksum of the plaintext.    *)

ByteValues == {0, 97, 255}

KeyRings == {1, 2}

RECURSIVE SeqsUpTo(_, _)
SeqsUpTo(S, n) ==
    IF n = 0 THEN {<<>>}
    ELSE LET shorter == SeqsUpTo(S, n - 1)
         IN  shorter \cup {Append(s, b) : s \in {t \in shorter : Len(t) = n - 1}, b \in S}

Secrets == SeqsUpTo(ByteValues, MaxSecretLen)

HeaderOf(key) == 1000 + key

IsHeader(x) == x >= 1000 /\ x < 2000

TrailerOf(sum) == 2000 + sum

IsTrailer(x) == x >= 2000

RECURSIVE Checksum(_)
Checksum(bytes) ==
    IF bytes = <<>> THEN 0 ELSE (Head(bytes) + Checksum(Tail(bytes))) % 256

\* the key stream byte of key at position i
KeyStream(key, i) == (key * 131 + i * 7) % 256

EncryptBytes(key, bytes) ==
    [i \in 1..Len(bytes) |-> (bytes[i] + KeyStream(key, i)) % 256]

DecryptBytes(key, bytes) ==
    [i \in 1..Len(bytes) |-> (bytes[i] + 256 - KeyStream(key, i)) % 256]

\* crypter.Encrypt(writer): writes the header to the sink, returns the open sink
Encrypt(c) ==
    IF c.PubKey = 0
    THEN [c EXCEPT !.err = "Encryption error", !.pc = "encrypting"]
    ELSE [c EXCEPT !.buf = <<HeaderOf(c.PubKey)>>, !.sinkOpen = TRUE, !.pc = "encrypting"]

\* encrypt.Write(p): streams the ciphertext of p into the sink
Write(c, p) ==
    IF c.sinkOpen
    THEN [c EXCEPT !.buf = c.buf \o EncryptBytes(c.PubKey, p), !.pc = "written"]
    ELSE [c EXCEPT !.pc = "written"]

\* encrypt.Close(): flushes and finalises the envelope
Close(c) ==
    IF c.sinkOpen
    THEN [c EXCEPT !.buf = Append(c.buf, TrailerOf(Checksum(c.secret))),
                   !.sinkOpen = FALSE, !.pc = "closed"]
    ELSE [c EXCEPT !.pc = "closed"]

\* crypter.Decrypt(reader): reads the header and finds the secret key it names
Decrypt(c) ==
    IF c.err # "nil" THEN [c EXCEPT !.pc = "decrypting"]
    ELSE IF c.buf = <<>> \/ ~IsHeader(c.buf[1]) \/ c.buf[1] # HeaderOf(c.SecretKey)
    THEN [c EXCEPT !.err = "Decryption error", !.pc = "decrypting"]
    ELSE [c EXCEPT !.pc = "decrypting"]

\* ioutil.ReadAll(decrypt): drains the source; a missing or wrong trailer is an error
ReadAll(c) ==
    IF c.err # "nil" THEN [c EXCEPT !.pc = "done"]
    ELSE
      LET n     == Len(c.buf)
          ended == n >= 2 /\ IsTrailer(c.buf[n])
          body  == SubSeq(c.buf, 2, IF ended THEN n - 1 ELSE n)
          plain == DecryptBytes(c.SecretKey, body)
      IN  IF ~ended
          THEN [c EXCEPT !.decrypted = plain, !.err = "unexpected EOF", !.pc = "done"]
          ELSE IF c.buf[n] # TrailerOf(Checksum(plain))
          THEN [c EXCEPT !.decrypted = plain, !.err = "integrity check failed",
                         !.pc = "done"]
          ELSE [c EXCEPT !.decrypted = plain, !.pc = "done"]

InitCycle ==
    /\ env = EnvOf(<<>>)
    /\ fs = NoFileSystem
    /\ InitResults

others == <<env, fs, folderRes, crypterRes, DiskLimiter, NetworkLimiter,
            limitersRes, uploaderRes>>

\* crypter := MockArmedCrypter(): public and secret key of one ring; someSecret
TestMockArmedCrypter ==
    /\ cycle.pc = "idle"
    /\ \E ring \in KeyRings, someSecret \in Secrets :
          cycle' = [cycle EXCEPT !.PubKey = ring, !.SecretKey = ring,
                                 !.secret = someSecret, !.pc = "armed"]
    /\ UNCHANGED others

\* encrypt, err := crypter.Encrypt(buf)
TestEncrypt ==
    /\ cycle.pc = "armed"
    /\ cycle' = Encrypt(cycle)
    /\ UNCHANGED others

\* encrypt.Write([]byte(someSecret))
TestWrite ==
    /\ cycle.pc = "encrypting"
    /\ cycle' = Write(cycle, cycle.secret)
    /\ UNCHANGED others

TestClose_Skipped ==
    /\ cycle.pc = "written"
    /\ cycle' = [cycle EXCEPT !.pc = "closed"]
    /\ UNCHANGED others

\* encrypt.Close()
TestClose ==
    /\ cycle.pc = "written"
    /\ cycle' = Close(cycle)
    /\ UNCHANGED others

\* decrypt, err := crypter.Decrypt(buf)
TestDecrypt ==
    /\ cycle.pc = "closed"
    /\ cycle' = Decrypt(cycle)
    /\ UNCHANGED others

\* decryptedBytes, err := ioutil.ReadAll(decrypt)
TestReadAll ==
    /\ cycle.pc = "decrypting"
    /\ cycle' = ReadAll(cycle)
    /\ UNCHANGED others

NextCycle ==
    \/ TestMockArmedCrypter
    \/ TestEncrypt
    \/ TestWrite
    \/ TestClose
    \/ TestDecrypt
    \/ TestReadAll

SpecCycle == InitCycle /\ [][NextCycle]_vars

-----------------------------------------------------------------------------
(* Properties of storage resolution (SpecFolder) *)

\* an activation setting is present when it is set to a non-empty value
ActivationPresent(i) ==
    /\ env[StorageAdapters[i].prefixName].found
    /\ env[StorageAdapters[i].prefixName].value # EmptyStr

NoActivationPresent == \A i \in 1..NumAdapters : ~ActivationPresent(i)

IsFirstPresent(i) ==
    /\ ActivationPresent(i)
    /\ \A j \in 1..(i - 1) : ~ActivationPresent(j)

\* C1: ConfigureFolder resolves to the first adapter, in registry order, whose
\* activation setting is present: only that adapter's settings loader and folder
\* constructor are invoked, and a failure of either is the error returned, with
\* no folder and no attempt on a later adapter.
C1_FirstMatchWins ==
    folderRes.called =>
        \A i \in 1..NumAdapters : IsFirstPresent(i) =>
            LET calls == folderRes.calls
            IN  /\ \A k \in 1..Len(calls) : calls[k].adapter = i
                /\ Len(calls) >= 1
                /\ calls[1].op = "loadSettings"
                /\ ~calls[1].ok =>
                      /\ Len(calls) = 1
                      /\ folderRes.folder = NoFolder
                      /\ folderRes.err.kind = "loadSettings"
                      /\ folderRes.err.adapter = i
                /\ calls[1].ok =>
                      /\ Len(calls) = 2
                      /\ calls[2].op = "configureFolder"
                      /\ ~calls[2].ok =>
                            /\ folderRes.folder = NoFolder
                            /\ folderRes.err.kind = "configureFolder"
                            /\ folderRes.err.adapter = i
                      /\ calls[2].ok =>
                            /\ folderRes.folder.adapter = i
                            /\ folderRes.err = NoError

\* the second adapter is the first present one, a later one is present too, and
\* the second adapter's folder construction failed
C1_Witness ==
    /\ folderRes.called
    /\ IsFirstPresent(2)
    /\ ActivationPresent(3)
    /\ folderRes.err.kind = "configureFolder"
    /\ folderRes.err.adapter = 2

\* C2: with no activation setting present, ConfigureFolder returns no folder and
\* an unconfigured-storage error listing every adapter's activation-setting name
\* once, in registry order.
C2_UnconfiguredListsAll ==
    (folderRes.called /\ NoActivationPresent) =>
        /\ folderRes.folder = NoFolder
        /\ folderRes.err.kind = "UnconfiguredStorage"
        /\ folderRes.err.list = [i \in 1..NumAdapters |-> StorageAdapters[i].prefixName]
        /\ folderRes.calls = <<>>

C2_Witness ==
    /\ folderRes.called
    /\ NoActivationPresent
    /\ folderRes.err.kind = "UnconfiguredStorage"
    /\ Len(folderRes.err.list) = NumAdapters

-----------------------------------------------------------------------------
(* Properties of crypter resolution (SpecCrypter) *)

PassphrasePresent == env["WALG_PGP_KEY_PASSPHRASE"].found

InlineKeyPresent == env["WALG_PGP_KEY"].found

KeyPathPresent == env["WALG_PGP_KEY_PATH"].found

\* the key-ring id counts as present when it is set to a non-empty value
KeyRingPresent ==
    env["WALE_GPG_KEY_ID"].found /\ env["WALE_GPG_KEY_ID"].value # EmptyStr

KeySettingNames == {"WALG_PGP_KEY", "WALG_PGP_KEY_PATH", "WALE_GPG_KEY_ID"}

Consulted(name) == \E k \in 1..Len(crypterRes.lookups) : crypterRes.lookups[k] = name

\* the result was built from the setting `name` by the constructor of `kind`,
\* or that constructor ended in a fatal error
BuiltFrom(name, kind) ==
    /\ crypterRes.lookups[Len(crypterRes.lookups)] = name
    /\ crypterRes.crypter.kind \in {kind, "fatal"}
    /\ crypterRes.crypter.kind = kind =>
          /\ crypterRes.crypter.key = env[name].value
          /\ crypterRes.crypter.passphrase = env["WALG_PGP_KEY_PASSPHRASE"].value

\* C3: without the passphrase setting ConfigureCrypter returns nil whatever the
\* key-material settings are, and consults none of them.
C3_NoPassphraseNoCrypter ==
    (crypterRes.called /\ ~PassphrasePresent) =>
        /\ crypterRes.crypter = NilCrypter
        /\ \A name \in KeySettingNames : ~Consulted(name)

C3_Witness ==
    /\ crypterRes.called
    /\ ~PassphrasePresent
    /\ InlineKeyPresent /\ env["WALG_PGP_KEY"].value # EmptyStr
    /\ KeyPathPresent /\ env["WALG_PGP_KEY_PATH"].value # EmptyStr
    /\ KeyRingPresent
    /\ crypterRes.crypter = NilCrypter

\* C4: with the passphrase present the key source is chosen by fixed precedence:
\* the inline key if present, else the key file path if present, else the
\* key-ring id if present, else nil; a lower source is never consulted while a
\* higher one is present.
C4_KeyPrecedence ==
    (crypterRes.called /\ PassphrasePresent) =>
        IF InlineKeyPresent
        THEN /\ BuiltFrom("WALG_PGP_KEY", "ArmoredKey")
             /\ ~Consulted("WALG_PGP_KEY_PATH") /\ ~Consulted("WALE_GPG_KEY_ID")
        ELSE IF KeyPathPresent
        THEN /\ BuiltFrom("WALG_PGP_KEY_PATH", "ArmoredKeyPath")
             /\ ~Consulted("WALE_GPG_KEY_ID")
        ELSE IF KeyRingPresent
        THEN BuiltFrom("WALE_GPG_KEY_ID", "KeyRingID")
        ELSE crypterRes.crypter = NilCrypter

C4_Witness ==
    /\ crypterRes.called
    /\ PassphrasePresent
    /\ ~InlineKeyPresent
    /\ KeyPathPresent
    /\ KeyRingPresent
    /\ crypterRes.crypter.kind = "ArmoredKeyPath"

KeyMaterialFound == InlineKeyPresent \/ KeyPathPresent \/ KeyRingPresent

\* C5 as stated: whenever some key material is found, the result is a crypter
\* or a fatal error, never nil.
C5_Original_NeverSilentNil ==
    (crypterRes.called /\ KeyMaterialFound) => crypterRes.crypter # NilCrypter

\* C5 amended: with the passphrase setting present, the result is nil exactly
\* when no key material is found.
C5_NilOnlyWithoutKeyMaterial ==
    (crypterRes.called /\ PassphrasePresent) =>
        (crypterRes.crypter = NilCrypter <=> ~KeyMaterialFound)

C5_Witness ==
    /\ crypterRes.called
    /\ PassphrasePresent
    /\ ~InlineKeyPresent
    /\ ~KeyPathPresent
    /\ KeyRingPresent
    /\ crypterRes.crypter.kind = "KeyRingID"

-----------------------------------------------------------------------------
(* Properties of the rate limiters (SpecLimiters) *)

BurstCoversRate(limiter) == limiter.set => I64Leq(limiter.limit, limiter.burst)

\* C6: every limiter ConfigureLimiters constructs has burst >= rate.
C6_BurstAtLeastRate ==
    BurstCoversRate(DiskLimiter) /\ BurstCoversRate(NetworkLimiter)

IsNonNegativeInteger(s) ==
    /\ ParseInt(s).err = "nil"
    /\ ~I64IsNegative(ParseInt(s).val)

BuiltOnlyFromNonNegative(limiter, name) ==
    /\ limiter.set => (env[name].found /\ IsNonNegativeInteger(env[name].value))
    /\ ~env[name].found => ~limiter.set

\* C10: a limiter is constructed only from a setting that is present and is a
\* valid non-negative integer; an absent setting leaves its limiter unset, and
\* that alone is no error.
C10_OnlyNonNegativeRates ==
    limitersRes.called =>
        /\ BuiltOnlyFromNonNegative(DiskLimiter, "WALG_DISK_RATE_LIMIT")
        /\ BuiltOnlyFromNonNegative(NetworkLimiter, "WALG_NETWORK_RATE_LIMIT")
        /\ (~env["WALG_DISK_RATE_LIMIT"].found /\ ~env["WALG_NETWORK_RATE_LIMIT"].found)
              => limitersRes.err = "nil"

-----------------------------------------------------------------------------
(* Properties of uploader assembly (SpecUploader) *)

FolderResolves ==
    ConfigureFolder(env, [i \in 1..NumAdapters |-> uploaderRes.loadOk],
                    [i \in 1..NumAdapters |-> uploaderRes.buildOk]).err = NoError

CompressorResolves == configureCompressor(env).err = "nil"

UseDelta == env["WALG_USE_WAL_DELTA"]

DeltaEnabled == UseDelta.found /\ ParseBool(UseDelta.value) = [val |-> TRUE, err |-> "nil"]

DeltaMalformed == UseDelta.found /\ ParseBool(UseDelta.value).err # "nil"

DeltaFolderOpens == getDataFolderPath(env, fs) \in fs.openable

Assembled == uploaderRes.uploader.set /\ uploaderRes.cause = "nil"

\* C7: with delta usage enabled and the delta data folder failing to open,
\* ConfigureUploader (folder and compressor resolving) still returns an
\* Uploader, with the delta-usage flag false, no usable delta folder and no
\* error.
C7_DeltaFolderDegrades ==
    (uploaderRes.called /\ FolderResolves /\ CompressorResolves
        /\ DeltaEnabled /\ ~DeltaFolderOpens) =>
        /\ Assembled
        /\ uploaderRes.uploader.useWalDelta = FALSE
        /\ uploaderRes.uploader.deltaDataFolder \in UnusableDataFolders
        /\ uploaderRes.warned

C7_Witness ==
    /\ uploaderRes.called
    /\ DeltaEnabled
    /\ ~DeltaFolderOpens
    /\ env["PGDATA"].found
    /\ uploaderRes.uploader.set
    /\ uploaderRes.warned

\* C8 as stated: whatever the use-delta setting holds (absent, a boolean, or
\* malformed) and however opening the delta folder ends, ConfigureUploader
\* returns an Uploader and no error once folder and compressor resolve.
C8_Original_DeltaNeverFatal ==
    (uploaderRes.called /\ FolderResolves /\ CompressorResolves) => Assembled

\* C8 amended: that holds for an absent or valid boolean use-delta setting; a
\* malformed one makes ConfigureUploader return no Uploader and the error
\* "failed to configure WAL Delta usage".
C8_DeltaFatalOnlyIfMalformed ==
    (uploaderRes.called /\ FolderResolves /\ CompressorResolves) =>
        IF DeltaMalformed
        THEN /\ ~uploaderRes.uploader.set
             /\ uploaderRes.context = "failed to configure WAL Delta usage"
        ELSE /\ Assembled
             /\ uploaderRes.uploader.useWalDelta = (DeltaEnabled /\ DeltaFolderOpens)

C8_Witness ==
    /\ uploaderRes.called
    /\ FolderResolves /\ CompressorResolves
    /\ DeltaEnabled
    /\ DeltaFolderOpens
    /\ Assembled
    /\ uploaderRes.uploader.useWalDelta
    /\ uploaderRes.uploader.deltaDataFolder.kind = "DiskDataFolder"

-----------------------------------------------------------------------------
(* Properties of the encryption cycle (SpecCycle) *)

====
